---------------------------- MODULE Spec2Model ----------------------------
(***************************************************************************)
(* Model of 301_redirect_CSV_mapper.py: fuzzy mapping of new URLs to old   *)
(* URLs in batches.                                                        *)
(*                                                                         *)
(* A URL is a sequence of one-character strings.  A similarity score is an *)
(* exact fraction <<numerator, denominator>>; for the string lengths       *)
(* considered here the correctly rounded double that Python computes       *)
(* compares with 0.6, and with another such score, exactly as the fraction *)
(* does.                                                                   *)
(***************************************************************************)
EXTENDS Integers, Sequences, FiniteSets, TLC

(***************************************************************************)
(* Bounds of the model.                                                    *)
(***************************************************************************)
MaxUrlLen == 1      \* longest URL drawn exhaustively for the matcher
MaxCands == 2       \* most candidates handed to find_best_match
MaxNewRows == 3     \* most rows of the new-URL CSV file
MaxOldRows == 2     \* most rows of the old-URL CSV file
MaxBatchSize == 2   \* largest batch_size

Alphabet == {"/", "a", "A"}

\* Python's None: a value that is no URL (no URL holds the character "None").
None == <<"None">>

(***************************************************************************)
(* Strings.                                                                *)
(***************************************************************************)
RECURSIVE StringsOfLen(_)
StringsOfLen(n) ==
    IF n = 0 THEN {<<>>}
    ELSE {<<c>> \o s : c \in Alphabet, s \in StringsOfLen(n - 1)}

StringsUpTo(n) == UNION {StringsOfLen(k) : k \in 0..n}

RECURSIVE SeqsOfLen(_, _)
SeqsOfLen(S, n) ==
    IF n = 0 THEN {<<>>}
    ELSE {<<x>> \o s : x \in S, s \in SeqsOfLen(S, n - 1)}

SeqsUpTo(S, n) == UNION {SeqsOfLen(S, k) : k \in 0..n}

\* str.startswith('/')
StartsWithSlash(url) == Len(url) > 0 /\ url[1] = "/"

LowerChar(c) == IF c = "A" THEN "a" ELSE c

\* str.lower()
RECURSIVE Lower(_)
Lower(url) ==
    IF url = <<>> THEN <<>> ELSE <<LowerChar(Head(url))>> \o Lower(Tail(url))

\* the slash correction done with normalize_url: the text is lower-cased too
SlashCorrect_Lowered(url) == Lower(IF StartsWithSlash(url) THEN url ELSE <<"/">> \o url)

\* the leading-slash correction of process_batch (lines 44-45 and 51-52)
SlashCorrect(url) == IF StartsWithSlash(url) THEN url ELSE <<"/">> \o url

\* normalize_url without the lower-casing of line 18
normalize_url_KeepCase(url) == IF StartsWithSlash(url) THEN url ELSE <<"/">> \o url

\* lines 12-18
normalize_url(url) == Lower(IF StartsWithSlash(url) THEN url ELSE <<"/">> \o url)

(***************************************************************************)
(* difflib.SequenceMatcher(None, a, b).ratio() for strings shorter than    *)
(* 200 characters (no junk, no "popular" elements).  Indices are 1-based   *)
(* and ranges inclusive: alo..ahi is Python's a[alo-1:ahi].                *)
(***************************************************************************)
RECURSIVE CommonLen(_, _, _, _, _, _)
CommonLen(a, b, i, j, ahi, bhi) ==
    IF i > ahi \/ j > bhi THEN 0
    ELSE IF a[i] # b[j] THEN 0
    ELSE 1 + CommonLen(a, b, i + 1, j + 1, ahi, bhi)

SetMax(S) == CHOOSE x \in S : \A y \in S : y <= x
SetMin(S) == CHOOSE x \in S : \A y \in S : x <= y

\* The longest matching block of a[alo..ahi] and b[blo..bhi]: of the longest
\* ones the one starting earliest in a, and of those the one starting
\* earliest in b; <<alo, blo, 0>> when nothing matches.
find_longest_match(a, b, alo, ahi, blo, bhi) ==
    LET P == (alo..ahi) \X (blo..bhi)
        K == [p \in P |-> CommonLen(a, b, p[1], p[2], ahi, bhi)]
    IN  IF P = {} THEN <<alo, blo, 0>>
        ELSE LET best == SetMax({K[p] : p \in P})
                 i == SetMin({p[1] : p \in {r \in P : K[r] = best}})
                 j == SetMin({p[2] : p \in {r \in P : K[r] = best /\ r[1] = i}})
             IN  IF best = 0 THEN <<alo, blo, 0>> ELSE <<i, j, best>>

\* Sum of the sizes of get_matching_blocks(): the longest block, then the
\* same to its left and to its right.
RECURSIVE Matches(_, _, _, _, _, _)
Matches(a, b, alo, ahi, blo, bhi) ==
    LET m == find_longest_match(a, b, alo, ahi, blo, bhi)
        i == m[1]
        j == m[2]
        k == m[3]
    IN  IF k = 0 THEN 0
        ELSE k
             + (IF alo < i /\ blo < j
                THEN Matches(a, b, alo, i - 1, blo, j - 1) ELSE 0)
             + (IF i + k <= ahi /\ j + k <= bhi
                THEN Matches(a, b, i + k, ahi, j + k, bhi) ELSE 0)

\* ratio() = 2.0 * matches / (len(a) + len(b)), and 1.0 for two empty strings
Ratio(a, b) ==
    IF Len(a) + Len(b) = 0 THEN <<1, 1>>
    ELSE <<2 * Matches(a, b, 1, Len(a), 1, Len(b)), Len(a) + Len(b)>>

\* s > t on scores
ScoreGt(s, t) == s[1] * t[2] > t[1] * s[2]


(***************************************************************************)
(* find_best_match (lines 20-35).                                          *)
(***************************************************************************)
\* the literal 0.6 of line 35
Threshold == <<3, 5>>

\* lines 23-24: best_match = None, best_score = 0
FbmStart == [best_match |-> None, best_score |-> <<0, 1>>]

\* FbmStep with "score >= best_score" in line 31: the last maximum wins
FbmStep_LastWins(st, normalized_new, old_url) ==
    LET normalized_old == normalize_url(old_url)
        score == Ratio(normalized_new, normalized_old)
    IN  IF ~ScoreGt(st.best_score, score)
        THEN [best_match |-> old_url, best_score |-> score]
        ELSE st

\* lines 27-33: one iteration of the loop over old_urls
FbmStep(st, normalized_new, old_url) ==
    LET normalized_old == normalize_url(old_url)
        score == Ratio(normalized_new, normalized_old)
    IN  IF ScoreGt(score, st.best_score)
        THEN [best_match |-> old_url, best_score |-> score]
        ELSE st

\* FbmReturn with "best_score >= 0.6" in line 35
FbmReturn_AtLeast(st) ==
    IF ~ScoreGt(Threshold, st.best_score)
    THEN <<st.best_match, st.best_score>>
    ELSE <<None, <<0, 1>>>>

\* line 35
FbmReturn(st) ==
    IF ScoreGt(st.best_score, Threshold)
    THEN <<st.best_match, st.best_score>>
    ELSE <<None, <<0, 1>>>>

RECURSIVE FbmLoop(_, _, _)
FbmLoop(st, normalized_new, old) ==
    IF old = <<>> THEN st
    ELSE FbmLoop(FbmStep(st, normalized_new, Head(old)), normalized_new, Tail(old))

find_best_match(new_url, old) ==
    FbmReturn(FbmLoop(FbmStart, normalize_url(new_url), old))

\* Python truth value of find_best_match's first result (line 49): None and
\* the empty string are false
Truthy(x) == x # None /\ x # <<>>

(***************************************************************************)
(* Inputs.                                                                 *)
(***************************************************************************)
\* URLs that reach the threshold exactly or lie close to it:
\* ratio("/aaaa", "/aa//") = 6/10, ratio("/aaaa", "/aa") = 6/8
Probes == {<<"a", "a", "a", "a">>, <<"a", "a", "/", "/">>, <<"/", "A", "a">>}

MatchUrls == StringsUpTo(MaxUrlLen) \cup Probes

\* first columns of the rows of the new-URL file and of the old-URL file
NewPool == {<<"A">>, <<"/", "a", "a">>}
OldPool == {<<>>, <<"A">>, <<"A", "a", "a", "a">>}

\* a CSV row is the sequence of its columns; <<>> is a row without columns
NewRows == {<<>>} \cup {<<u>> : u \in NewPool}
OldRows == {<<>>} \cup {<<u>> : u \in OldPool}

VARIABLES
    pc,                 \* position of the program
    old_file, new_file, \* rows of the two input files
    batch_size,
    old_urls, new_urls,
    batch_count, batch_num,
    batch_number,       \* the batch_number argument of process_batch
    current_batch,      \* the batch argument of process_batch
    i,                  \* URLs of the batch processed so far
    matched_results, unmatched_results,
    total_matched, total_unmatched,
    dir_exists,         \* the output directory exists
    files,              \* output files written: name -> rows
    calls,              \* the invocations of process_batch so far
    error,              \* "none", "input" or "output"
    fbm_new_url, fbm_old_urls,   \* arguments of find_best_match
    fbm_k,              \* candidates scanned so far
    best_match, best_score,
    fbm_result

vars == <<pc, old_file, new_file, batch_size, old_urls, new_urls, batch_count,
          batch_num, batch_number, current_batch, i, matched_results, unmatched_results,
          total_matched, total_unmatched, dir_exists, files, calls, error,
          fbm_new_url, fbm_old_urls, fbm_k, best_match, best_score, fbm_result>>

mapVars == <<old_file, new_file, batch_size, old_urls, new_urls, batch_count,
             batch_num, batch_number, current_batch, i, matched_results, unmatched_results,
             total_matched, total_unmatched, dir_exists, files, calls, error>>

fbmVars == <<fbm_new_url, fbm_old_urls, fbm_k, best_match, best_score, fbm_result>>

Pending == <<<<"pending">>, <<0, 1>>>>

FbmIdle ==
    /\ fbm_new_url = <<>>
    /\ fbm_old_urls = <<>>
    /\ fbm_k = 0
    /\ best_match = None
    /\ best_score = <<0, 1>>
    /\ fbm_result = Pending

MapIdle ==
    /\ old_file = <<>>
    /\ new_file = <<>>
    /\ batch_size = 1
    /\ old_urls = <<>>
    /\ new_urls = <<>>
    /\ batch_count = 0
    /\ batch_num = 0
    /\ batch_number = 0
    /\ current_batch = <<>>
    /\ i = 0
    /\ matched_results = <<>>
    /\ unmatched_results = <<>>
    /\ total_matched = 0
    /\ total_unmatched = 0
    /\ dir_exists = FALSE
    /\ files = <<>>
    /\ calls = <<>>
    /\ error = "none"

(***************************************************************************)
(* find_best_match, one candidate at a time.                               *)
(***************************************************************************)
InitMatch ==
    /\ pc = "fbm_loop"
    /\ fbm_new_url \in MatchUrls
    /\ fbm_old_urls \in SeqsUpTo(MatchUrls, MaxCands)
    /\ fbm_k = 0
    /\ best_match = FbmStart.best_match
    /\ best_score = FbmStart.best_score
    /\ fbm_result = Pending
    /\ MapIdle

FbmIterate ==
    /\ pc = "fbm_loop"
    /\ fbm_k < Len(fbm_old_urls)
    /\ LET st == FbmStep([best_match |-> best_match, best_score |-> best_score],
                         normalize_url(fbm_new_url), fbm_old_urls[fbm_k + 1])
       IN  /\ best_match' = st.best_match
           /\ best_score' = st.best_score
    /\ fbm_k' = fbm_k + 1
    /\ UNCHANGED <<pc, fbm_new_url, fbm_old_urls, fbm_result>>
    /\ UNCHANGED mapVars

FbmFinish ==
    /\ pc = "fbm_loop"
    /\ fbm_k = Len(fbm_old_urls)
    /\ fbm_result' = FbmReturn([best_match |-> best_match, best_score |-> best_score])
    /\ pc' = "fbm_done"
    /\ UNCHANGED <<fbm_new_url, fbm_old_urls, fbm_k, best_match, best_score>>
    /\ UNCHANGED mapVars

NextMatch == FbmIterate \/ FbmFinish

SpecMatch == InitMatch /\ [][NextMatch]_vars

(***************************************************************************)
(* map_urls_in_batches (lines 84-125) and process_batch (lines 37-82).     *)
(***************************************************************************)
Min(x, y) == IF x <= y THEN x ELSE y

\* Python's s[start:stop] for 0 <= start <= stop
PySlice(s, start, stop) == SubSeq(s, start + 1, Min(stop, Len(s)))

\* [row[0] for row in reader if row] (lines 96 and 101)
RECURSIVE FirstColumns(_)
FirstColumns(rows) ==
    IF rows = <<>> THEN <<>>
    ELSE IF Head(rows) = <<>> THEN FirstColumns(Tail(rows))
    ELSE <<Head(rows)[1]>> \o FirstColumns(Tail(rows))

\* batch_count without the "+ 1": the batch of the remaining URLs is lost
BatchCount_Floor(total, size) == total \div size

\* batch_count by ceiling division: no trailing empty batch
BatchCount_Ceil(total, size) == (total + size - 1) \div size

\* line 105
BatchCount(total, size) == (total \div size) + 1

\* process_batch called with batch_num, not batch_num + 1
BatchNumberArg_ZeroBased(n) == n

\* line 118: the batch_number argument of process_batch
BatchNumberArg(n) == n + 1

\* lines 68 and 76: the name of an output file
MatchedName(n) == <<"matched_urls_batch", n>>
UnmatchedName(n) == <<"unmatched_urls_batch", n>>

\* lines 71 and 79: the header rows
MatchedHeader == <<<<"cToUrl">>, <<"cFromUrl">>>>
UnmatchedHeader == <<<<"cToUrl">>>>

Init ==
    /\ pc = "detect_old"
    /\ old_file \in SeqsUpTo(OldRows, MaxOldRows)
    /\ new_file \in SeqsUpTo(NewRows, MaxNewRows)
    /\ batch_size \in 1..MaxBatchSize
    /\ old_urls = <<>>
    /\ new_urls = <<>>
    /\ batch_count = 0
    /\ batch_num = 0
    /\ batch_number = 0
    /\ current_batch = <<>>
    /\ i = 0
    /\ matched_results = <<>>
    /\ unmatched_results = <<>>
    /\ total_matched = 0
    /\ total_unmatched = 0
    /\ dir_exists = FALSE
    /\ files = <<>>
    /\ calls = <<>>
    /\ error = "none"
    /\ FbmIdle

\* the output directory created on entry, before the inputs are read
DetectOld_MakeDirsFirst ==
    /\ pc = "detect_old"
    /\ pc' = "detect_new"
    /\ dir_exists' = TRUE
    /\ UNCHANGED <<old_file, new_file, batch_size, old_urls, new_urls,
                   batch_count, batch_num, batch_number, current_batch, i,
                   matched_results, unmatched_results, total_matched,
                   total_unmatched, files, calls, error>>
    /\ UNCHANGED fbmVars

\* line 87
DetectOld ==
    /\ pc = "detect_old"
    /\ pc' = "detect_new"
    /\ UNCHANGED <<old_file, new_file, batch_size, old_urls, new_urls,
                   batch_count, batch_num, batch_number, current_batch, i,
                   matched_results,
                   unmatched_results, total_matched, total_unmatched,
                   dir_exists, files, calls, error>>
    /\ UNCHANGED fbmVars

\* line 88
DetectNew ==
    /\ pc = "detect_new"
    /\ pc' = "read_old"
    /\ UNCHANGED <<old_file, new_file, batch_size, old_urls, new_urls,
                   batch_count, batch_num, batch_number, current_batch, i,
                   matched_results,
                   unmatched_results, total_matched, total_unmatched,
                   dir_exists, files, calls, error>>
    /\ UNCHANGED fbmVars

\* lines 94-96
ReadOld ==
    /\ pc = "read_old"
    /\ old_urls' = FirstColumns(old_file)
    /\ pc' = "read_new"
    /\ UNCHANGED <<old_file, new_file, batch_size, new_urls,
                   batch_count, batch_num, batch_number, current_batch, i,
                   matched_results,
                   unmatched_results, total_matched, total_unmatched,
                   dir_exists, files, calls, error>>
    /\ UNCHANGED fbmVars

\* lines 99-110
ReadNew ==
    /\ pc = "read_new"
    /\ new_urls' = FirstColumns(new_file)
    /\ total_matched' = 0
    /\ total_unmatched' = 0
    /\ batch_count' = BatchCount(Len(new_urls'), batch_size)
    /\ batch_num' = 0
    /\ pc' = "for_batch"
    /\ UNCHANGED <<old_file, new_file, batch_size, old_urls, batch_number,
                   current_batch, i, matched_results, unmatched_results,
                   dir_exists, files, calls, error>>
    /\ UNCHANGED fbmVars

\* lines 8-9, 94-96 and 99-101: detecting the encoding of an input file, or
\* opening or decoding it, raises
InputFail ==
    /\ pc \in {"detect_old", "detect_new", "read_old", "read_new"}
    /\ pc' = "aborted"
    /\ error' = "input"
    /\ UNCHANGED <<old_file, new_file, batch_size, old_urls, new_urls,
                   batch_count, batch_num, batch_number, current_batch, i,
                   matched_results,
                   unmatched_results, total_matched, total_unmatched,
                   dir_exists, files, calls>>
    /\ UNCHANGED fbmVars

\* lines 112-118 and 39-40: the next batch is sliced and process_batch is called
StartBatch ==
    /\ pc = "for_batch"
    /\ batch_num < batch_count
    /\ LET start_idx == batch_num * batch_size
           end_idx == start_idx + batch_size
       IN  /\ current_batch' = PySlice(new_urls, start_idx, end_idx)
           /\ batch_number' = BatchNumberArg(batch_num)
           /\ calls' = Append(calls, [batch_number |-> batch_number',
                                      batch |-> current_batch'])
    /\ matched_results' = <<>>
    /\ unmatched_results' = <<>>
    /\ i' = 0
    /\ pc' = "pb_url"
    /\ UNCHANGED <<old_file, new_file, batch_size, old_urls, new_urls,
                   batch_count, batch_num, total_matched, total_unmatched,
                   dir_exists, files, error>>
    /\ UNCHANGED fbmVars

\* lines 42-61: one URL of the batch
ProcessUrl ==
    /\ pc = "pb_url"
    /\ i < Len(current_batch)
    /\ LET new_url == SlashCorrect(current_batch[i + 1])
           matched_url == find_best_match(new_url, old_urls)[1]
       IN  IF Truthy(matched_url)
           THEN /\ matched_results' =
                       Append(matched_results, <<new_url, SlashCorrect(matched_url)>>)
                /\ UNCHANGED unmatched_results
           ELSE /\ unmatched_results' = Append(unmatched_results, <<new_url>>)
                /\ UNCHANGED matched_results
    /\ i' = i + 1
    /\ UNCHANGED <<pc, old_file, new_file, batch_size, old_urls, new_urls,
                   batch_count, batch_num, batch_number, current_batch, total_matched,
                   total_unmatched, dir_exists, files, calls, error>>
    /\ UNCHANGED fbmVars

\* line 64
MakeDirs ==
    /\ pc = "pb_url"
    /\ i = Len(current_batch)
    /\ dir_exists' = TRUE
    /\ pc' = "pb_write_matched"
    /\ UNCHANGED <<old_file, new_file, batch_size, old_urls, new_urls,
                   batch_count, batch_num, batch_number, current_batch, i,
                   matched_results,
                   unmatched_results, total_matched, total_unmatched,
                   files, calls, error>>
    /\ UNCHANGED fbmVars

\* the matched file written without the test of line 67
WriteMatched_Always ==
    /\ pc = "pb_write_matched"
    /\ files' = (MatchedName(batch_number) :> (<<MatchedHeader>> \o matched_results))
                @@ files
    /\ pc' = "pb_write_unmatched"
    /\ UNCHANGED <<old_file, new_file, batch_size, old_urls, new_urls,
                   batch_count, batch_num, batch_number, current_batch, i,
                   matched_results, unmatched_results, total_matched,
                   total_unmatched, dir_exists, calls, error>>
    /\ UNCHANGED fbmVars

\* lines 67-72
WriteMatched ==
    /\ pc = "pb_write_matched"
    /\ files' = IF matched_results # <<>>
                THEN (MatchedName(batch_number) :> (<<MatchedHeader>> \o matched_results))
                     @@ files
                ELSE files
    /\ pc' = "pb_write_unmatched"
    /\ UNCHANGED <<old_file, new_file, batch_size, old_urls, new_urls,
                   batch_count, batch_num, batch_number, current_batch, i,
                   matched_results,
                   unmatched_results, total_matched, total_unmatched,
                   dir_exists, calls, error>>
    /\ UNCHANGED fbmVars

\* lines 75-80
WriteUnmatched ==
    /\ pc = "pb_write_unmatched"
    /\ files' = IF unmatched_results # <<>>
                THEN (UnmatchedName(batch_number) :> (<<UnmatchedHeader>> \o unmatched_results))
                     @@ files
                ELSE files
    /\ pc' = "pb_return"
    /\ UNCHANGED <<old_file, new_file, batch_size, old_urls, new_urls,
                   batch_count, batch_num, batch_number, current_batch, i,
                   matched_results,
                   unmatched_results, total_matched, total_unmatched,
                   dir_exists, calls, error>>
    /\ UNCHANGED fbmVars

\* lines 64, 69 and 77: creating the directory or opening an output file raises
OutputFail ==
    /\ \/ pc = "pb_url" /\ i = Len(current_batch)
       \/ pc = "pb_write_matched" /\ matched_results # <<>>
       \/ pc = "pb_write_unmatched" /\ unmatched_results # <<>>
    /\ pc' = "aborted"
    /\ error' = "output"
    /\ UNCHANGED <<old_file, new_file, batch_size, old_urls, new_urls,
                   batch_count, batch_num, batch_number, current_batch, i,
                   matched_results,
                   unmatched_results, total_matched, total_unmatched,
                   dir_exists, files, calls>>
    /\ UNCHANGED fbmVars

\* lines 82 and 118-120: process_batch returns its counts
ReturnBatch ==
    /\ pc = "pb_return"
    /\ total_matched' = total_matched + Len(matched_results)
    /\ total_unmatched' = total_unmatched + Len(unmatched_results)
    /\ batch_num' = batch_num + 1
    /\ pc' = "for_batch"
    /\ UNCHANGED <<old_file, new_file, batch_size, old_urls, new_urls,
                   batch_count, batch_number, current_batch, i, matched_results,
                   unmatched_results, dir_exists, files, calls, error>>
    /\ UNCHANGED fbmVars

\* lines 122-125
Complete ==
    /\ pc = "for_batch"
    /\ batch_num >= batch_count
    /\ pc' = "done"
    /\ UNCHANGED mapVars
    /\ UNCHANGED fbmVars

Next ==
    \/ DetectOld
    \/ DetectNew
    \/ ReadOld
    \/ ReadNew
    \/ InputFail
    \/ StartBatch
    \/ ProcessUrl
    \/ MakeDirs
    \/ WriteMatched
    \/ WriteUnmatched
    \/ OutputFail
    \/ ReturnBatch
    \/ Complete

Spec == Init /\ [][Next]_vars

(***************************************************************************)
(* Properties of find_best_match, checked under SpecMatch.                 *)
(***************************************************************************)
\* the similarity ratio of the new URL and candidate k, both normalized
RatioAt(k) ==
    Ratio(normalize_url(fbm_new_url), normalize_url(fbm_old_urls[k]))

\* s = t on scores
ScoreEq(s, t) == s[1] * t[2] = t[1] * s[2]

\* the ratios of the candidates
Ratios == [k \in 1..Len(fbm_old_urls) |-> RatioAt(k)]

\* the candidates scoring strictly above 0.6, R being their ratios
Above(R) == {k \in DOMAIN R : ScoreGt(R[k], <<6, 10>>)}

\* C1: find_best_match returns either a candidate with a score strictly
\* greater than 0.6, or (None, 0); and it returns (None, 0) only if no
\* candidate has a similarity ratio strictly greater than 0.6 with the new
\* URL after both are normalized.
C1_MatchOnlyAboveThreshold ==
    pc = "fbm_done" =>
        \A R \in {Ratios} :
            /\ fbm_result[1] # None =>
                  /\ ScoreGt(fbm_result[2], <<6, 10>>)
                  /\ \E k \in 1..Len(fbm_old_urls) :
                        /\ fbm_old_urls[k] = fbm_result[1]
                        /\ fbm_result[2] = R[k]
            /\ fbm_result[1] = None =>
                  /\ fbm_result[2] = <<0, 1>>
                  /\ Above(R) = {}

\* a candidate scores exactly 0.6, none scores more, and nothing is matched
C1_Witness ==
    /\ pc = "fbm_done"
    /\ fbm_result = <<None, <<0, 1>>>>
    /\ \E k \in 1..Len(fbm_old_urls) : ScoreEq(RatioAt(k), <<6, 10>>)

\* u and v are equal up to case and a missing leading slash
SameUrl(u, v) ==
    Lower(IF StartsWithSlash(u) THEN u ELSE <<"/">> \o u)
        = Lower(IF StartsWithSlash(v) THEN v ELSE <<"/">> \o v)

\* C3 as stated: every candidate that equals the new URL up to case and a
\* missing leading slash is the one returned, with score 1.0.
C3_AnyEqualCandidateReturned ==
    pc = "fbm_done" =>
        \A k \in 1..Len(fbm_old_urls) :
            SameUrl(fbm_old_urls[k], fbm_new_url) =>
                /\ fbm_result[1] = fbm_old_urls[k]
                /\ ScoreEq(fbm_result[2], <<1, 1>>)

\* C3 amended: the first candidate in corpus order that equals the new URL up
\* to case and a missing leading slash is returned in its original form, with
\* score 1.0.
C3_FirstEqualCandidateReturned ==
    pc = "fbm_done" =>
        \A k \in 1..Len(fbm_old_urls) :
            (/\ SameUrl(fbm_old_urls[k], fbm_new_url)
             /\ \A j \in 1..(k - 1) : ~SameUrl(fbm_old_urls[j], fbm_new_url)) =>
                /\ fbm_result[1] = fbm_old_urls[k]
                /\ ScoreEq(fbm_result[2], <<1, 1>>)

\* the second candidate equals the new URL up to case or slash without being
\* the same text, the first does not, and the second is returned
C3_Witness ==
    /\ pc = "fbm_done"
    /\ Len(fbm_old_urls) >= 2
    /\ ~SameUrl(fbm_old_urls[1], fbm_new_url)
    /\ SameUrl(fbm_old_urls[2], fbm_new_url)
    /\ fbm_old_urls[2] # fbm_new_url
    /\ fbm_result[1] = fbm_old_urls[2]

\* candidate m is the first of the first n candidates (the one of lowest
\* index) whose ratio is their maximum, R being the ratios
IsFirstMax(R, m, n) ==
    /\ \A j \in 1..n : ~ScoreGt(R[j], R[m])
    /\ \A j \in 1..(m - 1) : ScoreGt(R[m], R[j])

\* C4: after any number of candidates scanned the current best is the first
\* of them (lowest index) that reaches the maximum score, so a later
\* candidate replaces it only with a strictly greater score; and when that
\* maximum exceeds 0.6 the candidate returned is this first one.
C4_FirstMaximumWins ==
    (pc \in {"fbm_loop", "fbm_done"} /\ fbm_k > 0) =>
        \A R \in {[k \in 1..fbm_k |-> RatioAt(k)]} :
            \E m \in 1..fbm_k :
                /\ IsFirstMax(R, m, fbm_k)
                /\ best_match = fbm_old_urls[m]
                /\ best_score = R[m]
                /\ (pc = "fbm_done" /\ ScoreGt(R[m], <<6, 10>>)) =>
                      fbm_result[1] = fbm_old_urls[m]

\* two candidates of different text tie for a maximum above 0.6 and the
\* earlier one is returned
C4_Witness ==
    /\ pc = "fbm_done"
    /\ \A R \in {Ratios} :
           \E j, k \in 1..Len(fbm_old_urls) :
              /\ j < k
              /\ fbm_old_urls[j] # fbm_old_urls[k]
              /\ ScoreEq(R[j], R[k])
              /\ ScoreGt(R[j], <<6, 10>>)
              /\ \A m \in 1..Len(fbm_old_urls) : ~ScoreGt(R[m], R[j])
              /\ fbm_result[1] = fbm_old_urls[j]

(***************************************************************************)
(* Properties of map_urls_in_batches and process_batch, checked under Spec.*)
(***************************************************************************)
RECURSIVE ConcatBatches(_)
ConcatBatches(cs) ==
    IF cs = <<>> THEN <<>> ELSE Head(cs).batch \o ConcatBatches(Tail(cs))

\* C2: the batches passed to process_batch, concatenated in the order they
\* are processed, are at every moment the new-URL sequence up to the end of
\* the last batch started, and the whole sequence when the run is complete:
\* no URL is dropped, duplicated or reordered.
C2_BatchesConcatenateToInput ==
    /\ ConcatBatches(calls) =
          SubSeq(new_urls, 1, Min(Len(calls) * batch_size, Len(new_urls)))
    /\ pc = "done" => ConcatBatches(calls) = new_urls

\* a complete run whose last batch is shorter than the others
C2_Witness ==
    /\ pc = "done"
    /\ Len(new_urls) = 3
    /\ batch_size = 2
    /\ calls[1].batch = <<new_urls[1], new_urls[2]>>
    /\ calls[2].batch = <<new_urls[3]>>

\* C9: process_batch is invoked floor(n / b) + 1 times with batch numbers
\* 1..floor(n / b) + 1; every batch but the last holds b URLs and the last
\* holds n mod b, so it is empty exactly when n is a multiple of b.
C9_BatchCountAndSizes ==
    LET n == Len(new_urls)
        b == batch_size
    IN  /\ pc \in {"for_batch", "pb_url", "pb_write_matched", "pb_write_unmatched",
                   "pb_return", "done"} =>
              /\ Len(calls) <= (n \div b) + 1
              /\ \A k \in 1..Len(calls) :
                    /\ calls[k].batch_number = k
                    /\ Len(calls[k].batch) = IF k <= n \div b THEN b ELSE n % b
        /\ pc = "done" => Len(calls) = (n \div b) + 1

\* a complete run over a multiple of batch_size URLs: the extra batch is empty
C9_Witness ==
    /\ pc = "done"
    /\ Len(new_urls) = 2
    /\ batch_size = 2
    /\ Len(calls) = 2
    /\ Len(calls[1].batch) = 2
    /\ calls[2].batch = <<>>

InBatch == pc \in {"pb_url", "pb_write_matched", "pb_write_unmatched", "pb_return"}

\* the names of the files that the step writes
Written ==
    {f \in DOMAIN files' : f \notin DOMAIN files \/ files'[f] # files[f]}

C7_State ==
    /\ \A k \in 1..Len(calls) : calls[k].batch_number = k
    /\ InBatch => batch_number = Len(calls) /\ batch_num + 1 = batch_number
    /\ pc \in {"for_batch", "done"} => batch_num = Len(calls)
    /\ \A f \in DOMAIN files : f[2] \in 1..Len(calls)
    /\ pc = "pb_url" => \A f \in DOMAIN files : f[2] < Len(calls)

C7_Step ==
    /\ \A f \in Written :
          /\ f[2] = Len(calls)
          /\ pc \in {"pb_write_matched", "pb_write_unmatched"}
    /\ Len(calls') # Len(calls) =>
          /\ Len(calls') = Len(calls) + 1
          /\ pc = "for_batch"
          /\ Written = {}
    /\ i' # i => pc' = "pb_url" /\ Written = {}

\* C7: batches are numbered 1, 2, 3, ... in the order they are processed; a
\* batch is started only when no batch is in progress; a file is written
\* only for the batch in progress, after all its URLs are matched; so every
\* write of batch N precedes the matching and the writes of batch N + 1.
C7_BatchesStrictlySequential == [](C7_State) /\ [][C7_Step]_vars

\* the second batch is being matched and files of the first batch exist
C7_Witness ==
    /\ pc = "pb_url"
    /\ batch_number = 2
    /\ i = 1
    /\ MatchedName(1) \in DOMAIN files
    /\ UnmatchedName(1) \in DOMAIN files

\* C8: when detecting the encoding of, or reading, either input file fails,
\* process_batch has not been invoked, the output directory has not been
\* created and no output file has been written.
C8_InputFailureWritesNothing ==
    error = "input" =>
        /\ pc = "aborted"
        /\ calls = <<>>
        /\ ~dir_exists
        /\ files = <<>>

\* reading the new-URL file failed after the old URLs were read
C8_Witness ==
    /\ error = "input"
    /\ pc = "aborted"
    /\ old_urls # <<>>
    /\ new_file # <<>>
    /\ new_urls = <<>>

\* u with "/" prepended exactly when it lacks one, its casing unchanged
WithSlash(u) == IF Len(u) > 0 /\ u[1] = "/" THEN u ELSE <<"/">> \o u

Elems(sq) == {sq[k] : k \in 1..Len(sq)}

\* the data rows of an output file: all rows but the header
DataRows(f) == {files[f][k] : k \in 2..Len(files[f])}

\* C5: every URL of an output row begins with "/"; the new-URL column is a
\* new URL of the batch with "/" prepended exactly when it lacked one, and
\* the old-URL column of a matched row is an element of the old-URL corpus
\* with "/" prepended exactly when it lacked one, casing unchanged; this holds
\* of the rows being collected and of the rows written to the files, and
\* every URL processed so far has its row.
C5_OutputUrlsOnlySlashCorrected ==
    /\ InBatch =>
          /\ \A r \in Elems(matched_results) :
                /\ r[1] \in {WithSlash(current_batch[k]) : k \in 1..i}
                /\ r[2] \in {WithSlash(o) : o \in Elems(old_urls)}
                /\ r[1][1] = "/" /\ r[2][1] = "/"
          /\ \A r \in Elems(unmatched_results) :
                /\ r[1] \in {WithSlash(current_batch[k]) : k \in 1..i}
                /\ r[1][1] = "/"
          /\ \A k \in 1..i :
                \E r \in Elems(matched_results) \cup Elems(unmatched_results) :
                    r[1] = WithSlash(current_batch[k])
          /\ Len(matched_results) + Len(unmatched_results) = i
    /\ \A f \in DOMAIN files :
          \A r \in DataRows(f) :
              /\ r[1] \in {WithSlash(u) : u \in Elems(calls[f[2]].batch)}
              /\ r[1][1] = "/"
              /\ f = MatchedName(f[2]) =>
                    /\ r[2] \in {WithSlash(o) : o \in Elems(old_urls)}
                    /\ r[2][1] = "/"

\* a matched row written to a file whose two URLs both lacked the slash and
\* both hold an upper-case letter
C5_Witness ==
    \E f \in DOMAIN files :
        \E r \in DataRows(f) :
            /\ Len(r) = 2
            /\ r[1] # Lower(r[1])
            /\ r[2] # Lower(r[2])
            /\ r[1] \notin Elems(new_urls)
            /\ r[2] \notin Elems(old_urls)

\* C6: when process_batch returns, the matched file of the batch was written
\* exactly if the batch has a matched pair and the unmatched file exactly if
\* it has an unmatched URL; an empty batch has written no file; and no file
\* ever holds the header alone.
C6_FilesOnlyForNonEmptyResults ==
    /\ pc = "pb_return" =>
          /\ MatchedName(batch_number) \in DOMAIN files <=> matched_results # <<>>
          /\ UnmatchedName(batch_number) \in DOMAIN files <=> unmatched_results # <<>>
          /\ current_batch = <<>> =>
                \A f \in DOMAIN files : f[2] # batch_number
    /\ \A f \in DOMAIN files : Len(files[f]) >= 2

\* a batch returns having written its unmatched file and no matched file
C6_Witness ==
    /\ pc = "pb_return"
    /\ current_batch # <<>>
    /\ UnmatchedName(batch_number) \in DOMAIN files
    /\ MatchedName(batch_number) \notin DOMAIN files
    /\ matched_results = <<>>

\* some candidate of the corpus scores strictly above 0.6 against new URL u
ScoresAbove(u) ==
    \E c \in 1..Len(old_urls) :
        ScoreGt(Ratio(normalize_url(u), normalize_url(old_urls[c])), <<6, 10>>)

\* C10: every URL of the batch processed so far is in the matched list exactly
\* when some candidate scores strictly above 0.6 against it, and in the
\* unmatched list exactly when none does.
C10_MatchedIffScoreAboveThreshold ==
    InBatch =>
        \A k \in 1..i :
            LET u == WithSlash(current_batch[k])
            IN  /\ ScoresAbove(u) <=> \E r \in Elems(matched_results) : r[1] = u
                /\ ~ScoresAbove(u) <=> \E r \in Elems(unmatched_results) : r[1] = u

=============================================================================
